---- MODULE Spec2Model ----
(***************************************************************************)
(* Model of odl/space/fspace.py: function sets, function spaces, their     *)
(* elements (Vectors) and the lazily composed kernels _lincomb, _multiply, *)
(* _divide and _scalar_power.                                              *)
(*                                                                         *)
(* A Python function object is a record; `k` is its kind and `id` tells    *)
(* closures created by different calls apart (function identity).  A       *)
(* closure record holds what the closure captured.  numpy arrays live in a *)
(* heap (a sequence of arrays, an array being a sequence of numbers), so   *)
(* that in-place operators (`out *= a`) act on every name of the array.    *)
(* Numbers are exact fractions <<n, d>> with d > 0.                        *)
(***************************************************************************)
EXTENDS Integers, Sequences, FiniteSets, TLC

(***************************************************************************)
(* Bounds of the model.                                                    *)
(***************************************************************************)
\* number of operations in a run
MaxOps == 1
\* largest exponent handed to _scalar_power
MaxPow == 4

(***************************************************************************)
(* Numbers.                                                                *)
(***************************************************************************)
Abs(n) == IF n < 0 THEN -n ELSE n

RECURSIVE GCD(_, _)
GCD(m, n) == IF n = 0 THEN m ELSE GCD(n, m % n)

\* the fraction n/d (d # 0) in lowest terms with a positive denominator
Frac(n, d) ==
    LET g == GCD(Abs(n), Abs(d))
        s == IF d < 0 THEN -1 ELSE 1
    IN  << (s * n) \div g, (s * d) \div g >>

Num(n) == << n, 1 >>

RAdd(u, v) == Frac(u[1] * v[2] + v[1] * u[2], u[2] * v[2])
RMul(u, v) == Frac(u[1] * v[1], u[2] * v[2])
RDiv(u, v) == Frac(u[1] * v[2], u[2] * v[1])
IsZero(u) == u[1] = 0

\* the n-fold product of u (n >= 0), the meaning of u**n
RECURSIVE RPow(_, _)
RPow(u, n) == IF n = 0 THEN Num(1) ELSE RMul(u, RPow(u, n - 1))

(***************************************************************************)
(* numpy arrays: elementwise operations.                                   *)
(***************************************************************************)
ArrScale(arr, s) == [i \in DOMAIN arr |-> RMul(arr[i], s)]
ArrAdd(arr, brr) == [i \in DOMAIN arr |-> RAdd(arr[i], brr[i])]
ArrMul(arr, brr) == [i \in DOMAIN arr |-> RMul(arr[i], brr[i])]
ArrDiv(arr, brr) == [i \in DOMAIN arr |-> RDiv(arr[i], brr[i])]
ArrHasZero(arr) == \E i \in DOMAIN arr : IsZero(arr[i])
ArrFill(arr, v) == [i \in DOMAIN arr |-> v]
ArrPow(arr, n) == [i \in DOMAIN arr |-> RPow(arr[i], n)]


(***************************************************************************)
(* Function objects.                                                       *)
(***************************************************************************)
\* _apply_not_impl, the module-level dummy used when no apply is given
apply_not_impl == [k |-> "apply_not_impl", id |-> 0]

\* a callable handed in by the caller, known by its name
Raw(name) == [k |-> "raw", id |-> 0, name |-> name]

\* `f is g` for function objects: the same def executed by the same call
SameFn(f, g) ==
    /\ f.k = g.k
    /\ f.id = g.id
    /\ (f.k = "raw" => f.name = g.name)

\* vectorize(dtype, outarg='none')(func) and (..., outarg='positional')(func)
vect_wrapper_no_out(func) == [k |-> "vect_wrapper_no_out", id |-> 0, func |-> func]
vect_wrapper_pos_out(func) == [k |-> "vect_wrapper_pos_out", id |-> 0, func |-> func]

(***************************************************************************)
(* Evaluation.  A scalar evaluation returns [err, v]; an evaluation on     *)
(* arrays returns [err, h, r] with h the heap afterwards and r the index   *)
(* of the returned array; an in-place evaluation returns [err, h].         *)
(***************************************************************************)
Ok(v) == [err |-> "ok", v |-> v]
Fail(e) == [err |-> e, v |-> Num(0)]
OkV(h, r) == [err |-> "ok", h |-> h, r |-> r]
FailV(e, h) == [err |-> e, h |-> h, r |-> 0]
OkA(h) == [err |-> "ok", h |-> h]
FailA(e, h) == [err |-> e, h |-> h]

\* the heap with a new array appended; the new array's index is Len(h) + 1
Alloc(h, arr) == Append(h, arr)

\* the error of the first failing element of a loop, "ok" if none fails
FirstErr(rs) ==
    LET bad == {i \in DOMAIN rs : rs[i].err # "ok"}
    IN  IF bad = {} THEN "ok"
        ELSE rs[CHOOSE i \in bad : \A j \in bad : i <= j].err

\* the callables given by callers: lambda x: x + 1 and lambda x: x on points
RawCallS(name, x) ==
    CASE name = "succ_nv" -> Ok(RAdd(x, Num(1)))
      [] name = "ident_nv" -> Ok(x)
      [] OTHER -> Fail("TypeError")

\* lambda x: x[0] (a view of the input) and lambda x: x[0] + 1 (a new array)
RawCallV(name, h, x) ==
    CASE name = "ident" -> OkV(h, x)
      [] name = "succ" -> OkV(Alloc(h, ArrAdd(h[x], ArrFill(h[x], Num(1)))), Len(h) + 1)
      [] OTHER -> FailV("TypeError", h)

\* the in-place counterparts: out[:] = x[0] and out[:] = x[0] + 1
RawApplyV(name, h, x, out) ==
    CASE name = "ident_apply" -> OkA([h EXCEPT ![out] = h[x]])
      [] name = "succ_apply" ->
            OkA([h EXCEPT ![out] = ArrAdd(h[x], ArrFill(h[x], Num(1)))])
      [] OTHER -> FailA("TypeError", h)

\* ipow_posint with the factor of an odd exponent dropped
RECURSIVE ipow_posint_NoOddFactor(_, _)
ipow_posint_NoOddFactor(x, n) ==
    IF n = 1 THEN x
    ELSE ipow_posint_NoOddFactor(ArrMul(x, x), n \div 2)

\* ipow_posint: the n-th power (n >= 1) of the array x by squaring.  The code
\* works in place on x and returns x; this is the content x ends with.
RECURSIVE ipow_posint(_, _)
ipow_posint(x, n) ==
    IF n = 1 THEN x
    ELSE IF n % 2 = 0 THEN ipow_posint(ArrMul(x, x), n \div 2)
    ELSE LET tmp == x
         IN  ArrMul(ipow_posint(ArrMul(x, x), n \div 2), tmp)

RECURSIVE CallS(_, _)
RECURSIVE CallV(_, _, _)
RECURSIVE ApplyV(_, _, _, _)

\* lincomb_call on a point: the operators rebind `out`, nothing is shared
lincomb_call_S(f, x) ==
    LET a == f.a
        b == f.b
        e1 == CallS(f.x1_call, x)
        e2 == CallS(f.x2_call, x)
    IN  IF a = 0 /\ b # 0
        THEN IF e2.err # "ok" THEN e2
             ELSE Ok(IF b # 1 THEN RMul(e2.v, Num(b)) ELSE e2.v)
        ELSE IF b = 0
        THEN IF e1.err # "ok" THEN e1
             ELSE Ok(IF a # 1 THEN RMul(e1.v, Num(a)) ELSE e1.v)
        ELSE IF e1.err # "ok" THEN e1
        ELSE IF e2.err # "ok" THEN e2
        ELSE LET out == IF a # 1 THEN RMul(e1.v, Num(a)) ELSE e1.v
                 tmp == IF b # 1 THEN RMul(e2.v, Num(b)) ELSE e2.v
             IN  Ok(RAdd(out, tmp))

\* pow_posint, power_call on a point: x**n
power_call_S(f, x) ==
    LET e == CallS(f.x_call, x)
    IN  IF e.err # "ok" THEN e ELSE Ok(RPow(e.v, f.p))

CallS(f, x) ==
    CASE f.k = "raw" -> RawCallS(f.name, x)
      [] f.k = "lincomb_call" -> lincomb_call_S(f, x)
      [] f.k = "product_call" ->
            LET e1 == CallS(f.x1_call, x)
                e2 == CallS(f.x2_call, x)
            IN  IF e1.err # "ok" THEN e1
                ELSE IF e2.err # "ok" THEN e2
                ELSE Ok(RMul(e1.v, e2.v))
      [] f.k = "quotient_call" ->
            LET e1 == CallS(f.x1_call, x)
                e2 == CallS(f.x2_call, x)
            IN  IF e1.err # "ok" THEN e1
                ELSE IF e2.err # "ok" THEN e2
                ELSE IF IsZero(e2.v) THEN Fail("ZeroDivisionError")
                ELSE Ok(RDiv(e1.v, e2.v))
      [] f.k = "power_call" -> power_call_S(f, x)
      [] f.k = "zero_novec" -> Ok(Num(0))
      [] f.k = "one_novec" -> Ok(Num(1))
      \* _vect_wrapper on a point: len(x) of a number
      [] OTHER -> Fail("TypeError")

\* `arr *= s` and `arr += other` on the array at index r of the heap
ScaleInPlace(h, r, s) == [h EXCEPT ![r] = ArrScale(h[r], Num(s))]
AddInPlace(h, r, t) == [h EXCEPT ![r] = ArrAdd(h[r], h[t])]

\* np.empty_like(out): a new array; its content is whatever the memory held,
\* here the content of out
empty_like(h, out) == Alloc(h, h[out])

\* lincomb_call on arrays: the arrays the operands return are scaled and
\* added to in place
lincomb_call_V(f, h, x) ==
    LET a == f.a
        b == f.b
    IN  IF a = 0 /\ b # 0
        THEN LET e2 == CallV(f.x2_call, h, x)
             IN  IF e2.err # "ok" THEN e2
                 ELSE OkV(IF b # 1 THEN ScaleInPlace(e2.h, e2.r, b) ELSE e2.h, e2.r)
        ELSE IF b = 0
        THEN LET e1 == CallV(f.x1_call, h, x)
             IN  IF e1.err # "ok" THEN e1
                 ELSE OkV(IF a # 1 THEN ScaleInPlace(e1.h, e1.r, a) ELSE e1.h, e1.r)
        ELSE LET e1 == CallV(f.x1_call, h, x)
                 h1 == IF a # 1 THEN ScaleInPlace(e1.h, e1.r, a) ELSE e1.h
                 e2 == CallV(f.x2_call, h1, x)
                 h2 == IF b # 1 THEN ScaleInPlace(e2.h, e2.r, b) ELSE e2.h
             IN  IF e1.err # "ok" THEN e1
                 ELSE IF e2.err # "ok" THEN e2
                 ELSE OkV(AddInPlace(h2, e1.r, e2.r), e1.r)

\* power_call on arrays: pow_posint copies the array before ipow_posint
power_call_V(f, h, x) ==
    LET e == CallV(f.x_call, h, x)
    IN  IF e.err # "ok" THEN e
        ELSE IF f.p >= 1
        THEN OkV(Alloc(e.h, ipow_posint(e.h[e.r], f.p)), Len(e.h) + 1)
        ELSE OkV(Alloc(e.h, ArrPow(e.h[e.r], f.p)), Len(e.h) + 1)

\* _vect_wrapper(x, None) on an array of points: out[i] = func(x[i])
vect_call_V(f, h, x) ==
    LET rs == [i \in DOMAIN h[x] |-> CallS(f.func, h[x][i])]
    IN  IF FirstErr(rs) # "ok" THEN FailV(FirstErr(rs), h)
        ELSE OkV(Alloc(h, [i \in DOMAIN rs |-> rs[i].v]), Len(h) + 1)

CallV(f, h, x) ==
    CASE f.k = "raw" -> RawCallV(f.name, h, x)
      [] f.k = "lincomb_call" -> lincomb_call_V(f, h, x)
      [] f.k = "product_call" ->
            LET e1 == CallV(f.x1_call, h, x)
                e2 == CallV(f.x2_call, e1.h, x)
            IN  IF e1.err # "ok" THEN e1
                ELSE IF e2.err # "ok" THEN e2
                ELSE OkV(Alloc(e2.h, ArrMul(e2.h[e1.r], e2.h[e2.r])), Len(e2.h) + 1)
      [] f.k = "quotient_call" ->
            LET e1 == CallV(f.x1_call, h, x)
                e2 == CallV(f.x2_call, e1.h, x)
            IN  IF e1.err # "ok" THEN e1
                ELSE IF e2.err # "ok" THEN e2
                ELSE IF ArrHasZero(e2.h[e2.r]) THEN FailV("ZeroDivisionError", e2.h)
                ELSE OkV(Alloc(e2.h, ArrDiv(e2.h[e1.r], e2.h[e2.r])), Len(e2.h) + 1)
      [] f.k = "power_call" -> power_call_V(f, h, x)
      [] f.k = "vect_wrapper_no_out" -> vect_call_V(f, h, x)
      \* zero_vec, one_vec: np.zeros and np.ones of the input's shape
      [] f.k = "zero_vec" -> OkV(Alloc(h, ArrFill(h[x], Num(0))), Len(h) + 1)
      [] f.k = "one_vec" -> OkV(Alloc(h, ArrFill(h[x], Num(1))), Len(h) + 1)
      [] OTHER -> FailV("TypeError", h)

\* lincomb_apply
lincomb_apply_V(g, h, x, out) ==
    LET a == g.a
        b == g.b
    IN  IF a = 0 /\ b = 0 THEN OkA(ScaleInPlace(h, out, 0))
        ELSE IF a = 0 /\ b # 0
        THEN LET e2 == ApplyV(g.x2_apply, h, x, out)
             IN  IF e2.err # "ok" THEN e2
                 ELSE OkA(IF b # 1 THEN ScaleInPlace(e2.h, out, b) ELSE e2.h)
        ELSE IF b = 0 /\ a # 0
        THEN LET e1 == ApplyV(g.x1_apply, h, x, out)
             IN  IF e1.err # "ok" THEN e1
                 ELSE OkA(IF a # 1 THEN ScaleInPlace(e1.h, out, a) ELSE e1.h)
        ELSE LET h0 == empty_like(h, out)
                 tmp == Len(h) + 1
                 e1 == ApplyV(g.x1_apply, h0, x, out)
                 e2 == ApplyV(g.x2_apply, e1.h, x, tmp)
                 h1 == IF a # 1 THEN ScaleInPlace(e2.h, out, a) ELSE e2.h
                 h2 == IF b # 1 THEN ScaleInPlace(h1, tmp, b) ELSE h1
             IN  IF e1.err # "ok" THEN e1
                 ELSE IF e2.err # "ok" THEN e2
                 ELSE OkA(AddInPlace(h2, out, tmp))

\* product_apply (quot = FALSE) and quotient_apply (quot = TRUE)
product_apply_V(g, h, x, out, quot) ==
    LET h0 == empty_like(h, out)
        tmp == Len(h) + 1
        e1 == ApplyV(g.x1_apply, h0, x, out)
        e2 == ApplyV(g.x2_apply, e1.h, x, tmp)
    IN  IF e1.err # "ok" THEN e1
        ELSE IF e2.err # "ok" THEN e2
        ELSE IF quot /\ ArrHasZero(e2.h[tmp]) THEN FailA("ZeroDivisionError", e2.h)
        ELSE OkA([e2.h EXCEPT ![out] = IF quot THEN ArrDiv(e2.h[out], e2.h[tmp])
                                        ELSE ArrMul(e2.h[out], e2.h[tmp])])

\* power_apply
power_apply_V(g, h, x, out) ==
    LET e == ApplyV(g.x_apply, h, x, out)
    IN  IF e.err # "ok" THEN e
        ELSE IF g.p >= 1
        THEN OkA([e.h EXCEPT ![out] = ipow_posint(e.h[out], g.p)])
        ELSE OkA([e.h EXCEPT ![out] = ArrPow(e.h[out], g.p)])

\* _vect_wrapper(x, out) on an array of points: out[i] = func(x[i]), stopping
\* at the first element whose evaluation raises
vect_apply_V(g, h, x, out) ==
    LET rs == [i \in DOMAIN h[x] |-> CallS(g.func, h[x][i])]
        bad == {i \in DOMAIN rs : rs[i].err # "ok"}
        written == [i \in DOMAIN h[out] |->
                      IF \A j \in bad : i < j THEN rs[i].v ELSE h[out][i]]
    IN  [err |-> FirstErr(rs), h |-> [h EXCEPT ![out] = written]]

ApplyV(g, h, x, out) ==
    CASE g.k = "apply_not_impl" -> FailA("NotImplementedError", h)
      [] g.k = "raw" -> RawApplyV(g.name, h, x, out)
      [] g.k = "lincomb_apply" -> lincomb_apply_V(g, h, x, out)
      [] g.k = "product_apply" -> product_apply_V(g, h, x, out, FALSE)
      [] g.k = "quotient_apply" -> product_apply_V(g, h, x, out, TRUE)
      [] g.k = "power_apply" -> power_apply_V(g, h, x, out)
      [] g.k = "vect_wrapper_pos_out" -> vect_apply_V(g, h, x, out)
      \* zero_apply and one_apply: both are out.fill(0.0)
      [] g.k = "zero_apply" -> OkA([h EXCEPT ![out] = ArrFill(h[out], Num(0))])
      [] g.k = "one_apply" -> OkA([h EXCEPT ![out] = ArrFill(h[out], Num(0))])
      [] OTHER -> FailA("TypeError", h)

(***************************************************************************)
(* odl/test/operator.py: OperatorTest.  The operator under test acts on    *)
(* the real line: A(x) = k * x + c, with the flag `linear` it declares,    *)
(* its adjoint and its derivative, either of which may be missing.         *)
(* Vectors are numbers, the norm is the absolute value and the inner       *)
(* product the product.  The object of the test is a record t; a method    *)
(* returns the object as it is after the call, t.log holding what the      *)
(* call did, in order, and t.err the exception that left it.               *)
(***************************************************************************)
RNeg(u) == << -u[1], u[2] >>
RSub(u, v) == RAdd(u, RNeg(v))
RAbs(u) == << Abs(u[1]), u[2] >>
\* u > v for fractions with positive denominators
RGt(u, v) == u[1] * v[2] > v[1] * u[2]

\* the largest of a non-empty set of fractions, Python's max
RMax(S) == CHOOSE m \in S : \A s \in S : ~RGt(s, m)

\* vector_examples(space) and scalar_examples(space) for the real line
vector_examples == << Num(0), Num(1), Num(-2) >>
scalar_examples == << Num(-1), Num(0), Num(2) >>

\* the threshold 0.00001 of the checks and the default step 0.0001
Tolerance == Frac(1, 100000)
DefaultStep == Frac(1, 10000)

\* operator(x), operator.adjoint(y), operator.adjoint.adjoint(x) and
\* operator.derivative(x)(dx)
OpCall(operator, x) == RAdd(RMul(Num(operator.k), x), Num(operator.c))
AdjCall(operator, y) == RMul(Num(operator.adjoint.k), y)
AdjAdjCall(operator, x) == RMul(Num(operator.adjoint.adjoint.k), x)
DerivCall(operator, dx) == RMul(Num(operator.derivative.k), dx)

\* operator_norm: None or a number
NoNorm == [known |-> FALSE, v |-> Num(0)]
KnownNorm(v) == [known |-> TRUE, v |-> v]

\* the counts of failed cases, -1 for a check that did not count
NoCounts ==
    [scaling |-> -1, addition |-> -1, adjoint_definition |-> -1,
     adjoint_of_adjoint |-> -1, derivative |-> -1]

\* OperatorTest.__init__
OperatorTest(operator, operator_norm) ==
    [operator |-> operator, operator_norm |-> operator_norm,
     log |-> << >>, err |-> "ok", failed |-> NoCounts,
     method |-> "__init__", pre_norm |-> operator_norm, calls |-> 0]

Log(t, e) == [t EXCEPT !.log = Append(@, e)]
Raise(t, e) == [t EXCEPT !.err = e]

\* `error = 0 if denom == 0 else num / denom` followed by `error > 0.00001`
Failed(num, denom) ==
    IF IsZero(denom) THEN FALSE ELSE RGt(RDiv(num, denom), Tolerance)

\* OperatorTest.norm
norm(t) ==
    LET estimates == { IF IsZero(RAbs(vector_examples[i])) THEN Num(0)
                       ELSE RDiv(RAbs(OpCall(t.operator, vector_examples[i])),
                                 RAbs(vector_examples[i])) :
                       i \in DOMAIN vector_examples }
        operator_norm == RMax({Num(0)} \cup estimates)
    IN  [Log(t, "norm") EXCEPT !.operator_norm = KnownNorm(operator_norm)]

\* OperatorTest._adjoint_definition
adjoint_definition(t) ==
    LET t1 == Log(t, "_adjoint_definition")
        D == DOMAIN vector_examples
        bad == { p \in D \X D :
                   LET vec_dom == vector_examples[p[1]]
                       vec_ran == vector_examples[p[2]]
                       Axy == RMul(OpCall(t.operator, vec_dom), vec_ran)
                       xAty == RMul(vec_dom, AdjCall(t.operator, vec_ran))
                       denom == RMul(t.operator_norm.v,
                                     RMul(RAbs(vec_dom), RAbs(vec_ran)))
                   IN  Failed(RAbs(RSub(Axy, xAty)), denom) }
    IN  \* None * vec_dom_norm
        IF ~t.operator_norm.known THEN Raise(t1, "TypeError")
        ELSE [Log(t1, "scale") EXCEPT
                 !.failed.adjoint_definition = Cardinality(bad)]

\* OperatorTest._adjoint_of_adjoint
adjoint_of_adjoint(t) ==
    LET t1 == Log(t, "_adjoint_of_adjoint")
        aa == t.operator.adjoint.adjoint
        bad == { i \in DOMAIN vector_examples :
                   LET vec == vector_examples[i]
                       A_result == OpCall(t.operator, vec)
                       ATT_result == AdjAdjCall(t.operator, vec)
                       denom == RMul(t.operator_norm.v, RAbs(vec))
                   IN  Failed(RAbs(RSub(A_result, ATT_result)), denom) }
    IN  IF aa.is = "AttributeError" THEN Log(t1, "A^* has no adjoint")
        ELSE IF aa.is = "NotImplementedError" THEN Raise(t1, "NotImplementedError")
        ELSE IF aa.is = "self" THEN Log(t1, "(A^*)^* == A")
        ELSE IF ~t.operator_norm.known THEN Raise(t1, "TypeError")
        ELSE [Log(t1, "compared") EXCEPT
                 !.failed.adjoint_of_adjoint = Cardinality(bad)]

\* adjoint that goes on to the checks whatever the domains and ranges are
adjoint_NoAbort(t) ==
    LET t1 == Log(t, "adjoint")
        t2 == adjoint_definition(t1)
    IN  IF t.operator.adjoint.is = "NotImplementedError"
        THEN Log(t1, "Operator has no adjoint")
        ELSE IF t2.err # "ok" THEN t2 ELSE adjoint_of_adjoint(t2)

\* OperatorTest.adjoint
adjoint(t) ==
    LET t1 == Log(t, "adjoint")
        adj == t.operator.adjoint
        t2 == IF t.operator.domain # adj.range
              THEN Log(t1, "ERROR: A.domain != A.adjoint.range") ELSE t1
        t3 == IF t.operator.range # adj.domain
              THEN Log(t2, "ERROR: A.domain != A.adjoint.range") ELSE t2
        domain_range_ok ==
            t.operator.domain = adj.range /\ t.operator.range = adj.domain
        t4 == adjoint_definition(Log(t3, "Domain and range of adjoint is OK."))
    IN  IF adj.is = "NotImplementedError" THEN Log(t1, "Operator has no adjoint")
        ELSE IF ~domain_range_ok
        THEN Log(t3, "Domain and range of adjoint not OK exiting.")
        ELSE IF t4.err # "ok" THEN t4
        ELSE adjoint_of_adjoint(t4)

\* derivative that compares whether or not the norm is known
derivative_NoNormCheck(t, step) ==
    LET t1 == Log(t, "derivative")
    IN  IF t.operator.derivative.is = "NotImplementedError"
        THEN Log(t1, "Operator has no derivative")
        ELSE [Log(t1, "compared") EXCEPT !.failed.derivative = 0]

\* OperatorTest.derivative
derivative(t, step) ==
    LET t1 == Log(t, "derivative")
        D == DOMAIN vector_examples
        bad == { p \in D \X D :
                   LET x == vector_examples[p[1]]
                       dx == vector_examples[p[2]]
                       opx == OpCall(t.operator, x)
                       exact_step ==
                           RSub(OpCall(t.operator, RAdd(x, RMul(dx, step))), opx)
                       expected_step == DerivCall(t.operator, RMul(dx, step))
                       denom == RMul(RMul(step, RAbs(dx)), t.operator_norm.v)
                   IN  Failed(RAbs(RSub(exact_step, expected_step)), denom) }
    IN  IF t.operator.derivative.is = "NotImplementedError"
        THEN Log(t1, "Operator has no derivative")
        ELSE IF ~t.operator_norm.known
        THEN Log(t1, "Cannot do tests before norm is calculated")
        ELSE [Log(t1, "compared") EXCEPT !.failed.derivative = Cardinality(bad)]

\* OperatorTest.linear
linear(t) ==
    LET t1 == Log(t, "linear")
        D == DOMAIN vector_examples
        bad_scaling ==
            { p \in D \X DOMAIN scalar_examples :
                LET x == vector_examples[p[1]]
                    scale == scalar_examples[p[2]]
                    opx == OpCall(t.operator, x)
                    scaled_opx == OpCall(t.operator, RMul(scale, x))
                    denom == RMul(RMul(t.operator_norm.v, scale), RAbs(x))
                IN  Failed(RAbs(RSub(scaled_opx, RMul(opx, scale))), denom) }
        bad_addition ==
            { p \in D \X D :
                LET x == vector_examples[p[1]]
                    y == vector_examples[p[2]]
                    opx == OpCall(t.operator, x)
                    opy == OpCall(t.operator, y)
                    opxy == OpCall(t.operator, RAdd(x, y))
                    denom == RMul(t.operator_norm.v, RAdd(RAbs(x), RAbs(y)))
                IN  Failed(RAbs(RSub(RSub(opxy, opx), opy)), denom) }
    IN  IF ~t.operator.linear THEN Log(t1, "Operator is not linear")
        ELSE IF ~t.operator_norm.known
        THEN Log(t1, "Cannot do tests before norm is calculated")
        ELSE [Log(t1, "compared") EXCEPT
                 !.failed.scaling = Cardinality(bad_scaling),
                 !.failed.addition = Cardinality(bad_addition)]

\* run_tests that checks linearity and the adjoint before estimating the norm
run_tests_NormLast(t) ==
    LET t1 == linear(t)
        t2 == IF t1.err # "ok" THEN t1 ELSE adjoint(t1)
    IN  IF t.operator.linear
        THEN IF t2.err # "ok" THEN t2 ELSE norm(t2)
        ELSE norm(derivative(t, DefaultStep))

\* OperatorTest.run_tests
run_tests(t) ==
    LET t1 == norm(t)
        t2 == linear(t1)
    IN  IF t1.err # "ok" THEN t1
        ELSE IF t.operator.linear
        THEN IF t2.err # "ok" THEN t2 ELSE adjoint(t2)
        ELSE derivative(t1, DefaultStep)

\* the operators put to the test
NotImplemented == [is |-> "NotImplementedError", k |-> 0]
Operators ==
    { [linear |-> lin, k |-> 2, c |-> c, domain |-> "X", range |-> "Y",
       adjoint |-> adj, derivative |-> der] :
      lin \in BOOLEAN, c \in {0, 1},
      adj \in {[is |-> "NotImplementedError", k |-> 0, domain |-> "Y",
                range |-> "X", adjoint |-> NotImplemented]}
              \cup { [is |-> "Operator", k |-> ak, domain |-> ad, range |-> ar,
                      adjoint |-> aa] :
                     ak \in {2, 3}, ad \in {"Y", "Z"}, ar \in {"X", "Z"},
                     aa \in { [is |-> "self", k |-> 2],
                              [is |-> "Operator", k |-> 2],
                              [is |-> "Operator", k |-> 5],
                              [is |-> "AttributeError", k |-> 0],
                              NotImplemented } },
      der \in {NotImplemented, [is |-> "Operator", k |-> 2],
               [is |-> "Operator", k |-> 5]} }

\* the operator of the test object that stands by while Vectors are worked on
IdentityOperator ==
    [linear |-> TRUE, k |-> 1, c |-> 0, domain |-> "X", range |-> "X",
     adjoint |-> [is |-> "Operator", k |-> 1, domain |-> "X", range |-> "X",
                  adjoint |-> [is |-> "self", k |-> 1]],
     derivative |-> [is |-> "Operator", k |-> 1]]

\* the norms handed to OperatorTest(operator, operator_norm)
GivenNorms == {NoNorm, KnownNorm(Num(2)), KnownNorm(Num(4))}

(***************************************************************************)
(* AstraProjectorImpl.  The object holds the ids of the ASTRA objects it   *)
(* created; ASTRA hands out ids, keeps the set of the allocated ones and   *)
(* is asked to delete them.  The record is the object together with what   *)
(* ASTRA holds: allocated are the ids in use, next the id it hands out     *)
(* next, issued the delete calls of the last method, each with the id it   *)
(* was given and whether that id was allocated when the call was made;     *)
(* method, vol_data, out, err and ret are the last method called, its      *)
(* arguments and its outcome.                                              *)
(***************************************************************************)
\* None, where an id is expected
NoId == 0

\* AstraProjectorImpl.__init__
AstraProjectorImpl(geometry, use_cache) ==
    [geometry |-> geometry, use_cache |-> use_cache,
     algo_id |-> NoId, vol_id |-> NoId, sino_id |-> NoId, proj_id |-> NoId,
     out_array |-> Num(0),
     allocated |-> {}, next |-> 1, volume |-> Num(0), issued |-> << >>,
     method |-> "__init__", vol_data |-> Num(0), out |-> "None",
     err |-> "ok", ret |-> Num(0), calls |-> 0, alive |-> TRUE]

\* astra_data, astra_projector, astra_algorithm: a new object, its id stored
\* in the attribute attr if that attribute is None
astra_create(s, attr) ==
    IF s[attr] # NoId THEN s
    ELSE [s EXCEPT ![attr] = s.next, !.allocated = @ \cup {s.next},
                   !.next = @ + 1]

\* astra.algorithm.delete, astra.data2d.delete, astra.projector.delete
astra_delete(s, id) ==
    [s EXCEPT !.issued = Append(@, [id |-> id, allocated |-> id \in s.allocated]),
              !.allocated = @ \ {id}]

\* astra.algorithm.run of the forward projection: the line integrals of a
\* constant volume over two pixels
forward_project(volume) == RMul(Num(2), volume)

\* geometry.det_partition.cell_sides[0]
cell_side == Num(2)

\* AstraProjectorImpl.delete_ids
delete_ids(s) ==
    LET s1 == astra_delete(s, s.algo_id)
        s2 == astra_delete(astra_delete(s1, s1.vol_id), s1.sino_id)
        s3 == astra_delete(s2, s2.proj_id)
    IN  [s3 EXCEPT !.algo_id = NoId, !.vol_id = NoId, !.sino_id = NoId,
                   !.proj_id = NoId]

\* AstraProjectorImpl.call_forward for a geometry of two dimensions
call_forward(s, vol_data, out) ==
    LET s1 == astra_create(s, "vol_id")
        s2 == astra_create([s1 EXCEPT !.volume = vol_data.v], "proj_id")
        s3 == astra_create(s2, "sino_id")
        s4 == astra_create(s3, "algo_id")
        out_array == forward_project(s4.volume)
        s5 == IF s.use_cache THEN [s4 EXCEPT !.out_array = out_array] ELSE s4
        scaled == IF s.geometry = "Parallel2dGeometry"
                  THEN RMul(out_array, RDiv(Num(1), cell_side))
                  ELSE out_array
        s6 == IF ~s.use_cache THEN delete_ids(s5) ELSE s5
    IN  IF vol_data.k # "DiscreteLpElement" THEN [s EXCEPT !.err = "TypeError"]
        ELSE IF vol_data.ndim # 2 THEN [s EXCEPT !.err = "ValueError"]
        ELSE IF out \notin {"None", "DiscreteLpElement"}
        THEN [s EXCEPT !.err = "TypeError"]
        ELSE [s6 EXCEPT !.ret = scaled]

(***************************************************************************)
(* Spaces and Vectors.                                                     *)
(***************************************************************************)
\* two function spaces over different intervals, both real-valued
Sp1 == [domain |-> "[-1, 1]", range |-> "RealNumbers"]
Sp2 == [domain |-> "[0, 1]", range |-> "RealNumbers"]

\* FunctionSpace.__eq__
SpaceEq(s, t) == s.domain = t.domain /\ s.range = t.range

\* the names bound to Vectors; 0 stands for an object that is no Vector
Slots == {1, 2, 3, 4}
NotAVector == 0
\* the name of an object a call creates, before the call returns it
NewObject == 5

\* Python's None, where a function is expected
None == [k |-> "None", id |-> 0]

VARIABLES vecs, nfun, nops, last, ot, impl
vars == << vecs, nfun, nops, last, ot, impl >>

\* FunctionSet.__contains__: `other in fset`, other a name or NotAVector
Member(fset, other, vs) ==
    /\ other \in DOMAIN vs
    /\ SpaceEq(fset, vs[other].space)

\* Vector.__init__ without the check that only vectorized functions have an apply
VectorInit_NoCheck(fset, fcall, fapply, vectorized) ==
    [err |-> "ok",
     vec |-> [space |-> fset, call |-> fcall,
              apply |-> IF fapply # None THEN fapply ELSE apply_not_impl,
              vectorized |-> vectorized]]

\* FunctionSet.Vector.__init__: the new Vector, or the error raised
VectorInit(fset, fcall, fapply, vectorized) ==
    IF ~vectorized /\ fapply # None
    THEN [err |-> "ValueError", vec |-> None]
    ELSE [err |-> "ok",
          vec |-> [space |-> fset, call |-> fcall,
                   apply |-> IF fapply # None THEN fapply ELSE apply_not_impl,
                   vectorized |-> vectorized]]

\* FunctionSpace.zero
zero(fset, vectorized, id) ==
    VectorInit(fset,
               IF vectorized THEN [k |-> "zero_vec", id |-> id]
               ELSE [k |-> "zero_novec", id |-> id],
               IF vectorized THEN [k |-> "zero_apply", id |-> id] ELSE None,
               vectorized).vec

\* FunctionSpace.one
one(fset, vectorized, id) ==
    VectorInit(fset,
               IF vectorized THEN [k |-> "one_vec", id |-> id]
               ELSE [k |-> "one_novec", id |-> id],
               IF vectorized THEN [k |-> "one_apply", id |-> id] ELSE None,
               vectorized).vec

\* the outcome of an evaluation v(x) or v(x, out=buf): the error raised or
\* "ok", the values returned (as an array, `scalar` telling that the caller
\* gets its only entry), and whether v's call and apply functions were invoked
EvalRes(err, val, scalar, fcall, fapply) ==
    [err |-> err, val |-> val, scalar |-> scalar, fcall |-> fcall,
     fapply |-> fapply]

\* no evaluation was made
NoRes == EvalRes("none", << >>, FALSE, FALSE, FALSE)

\* the arguments of an evaluation: x is a point of the real line (v holds the
\* one number), a (1, N) array of points or some other object; out is None or
\* an array
Point(n) == [k |-> "point", v |-> << Num(n) >>]
Array(arr) == [k |-> "array", v |-> arr]
Other == [k |-> "other", v |-> << >>]
NoOut == [k |-> "None", v |-> << >>]
EvalArg(x, out, vec_bounds_check) ==
    [x |-> x, out |-> out, vec_bounds_check |-> vec_bounds_check]
NoArg == EvalArg(NoOut, NoOut, TRUE)

\* what an operation leaves behind for the properties: its name, its
\* arguments, the outcome and the Vectors as they were before it; ret is the
\* name of the Vector the operation returned (NotAVector if it returned none),
\* new tells whether the operation created that Vector, arg and res are the
\* arguments and the outcome of an evaluation, fset, fapply and vectorized
\* the arguments of element, zero and one
Rec(op, a, b, p, x1, x2, out, err, pre) ==
    [op |-> op, a |-> a, b |-> b, p |-> p, x1 |-> x1, x2 |-> x2,
     out |-> out, err |-> err, pre |-> pre,
     ret |-> NotAVector, new |-> FALSE, arg |-> NoArg, res |-> NoRes,
     fset |-> Sp1, fapply |-> None, vectorized |-> TRUE]

InitVecs ==
    [i \in Slots |->
        CASE i = 1 -> VectorInit(Sp1, Raw("ident"), None, TRUE).vec
          [] i = 2 -> VectorInit(Sp1, Raw("succ"), Raw("succ_apply"), TRUE).vec
          [] i = 3 -> VectorInit(Sp1, Raw("succ_nv"), None, FALSE).vec
          [] OTHER -> VectorInit(Sp2, Raw("succ"), Raw("succ_apply"), TRUE).vec]

Init ==
    /\ vecs = InitVecs
    /\ nfun = 0
    /\ nops = 0
    /\ last = Rec("init", 0, 0, 0, 0, 0, 0, "ok", InitVecs)
    /\ ot = OperatorTest(IdentityOperator, NoNorm)
    /\ impl = AstraProjectorImpl("Parallel2dGeometry", TRUE)

(***************************************************************************)
(* The kernels of FunctionSpace.  A kernel works on the objects vs by      *)
(* their names, so that out may be one of the operands; it reads and       *)
(* writes the attributes in the order of the code and returns the objects  *)
(* as they are afterwards.  id is the identity of the closures it defines. *)
(***************************************************************************)
\* wrapping every non-vectorized operand, whatever the combination's flag
wrap_call_Always(vect, x) ==
    IF ~x.vectorized THEN vect_wrapper_no_out(x.call) ELSE x.call

\* vectorize(dtype, outarg='none')(x_call) for a non-vectorized operand of a
\* vectorized combination
wrap_call(vect, x) ==
    IF vect /\ ~x.vectorized THEN vect_wrapper_no_out(x.call) ELSE x.call

\* vectorize(dtype, outarg='positional')(x_call), x_call being the wrapper
\* just made
wrap_apply(vect, x) ==
    IF vect /\ ~x.vectorized
    THEN vect_wrapper_pos_out(vect_wrapper_no_out(x.call))
    ELSE x.apply

lincomb_vect(x1, x2) == x1.vectorized \/ x2.vectorized

\* `_apply_not_impl in (x1_apply, x2_apply)`: the local names, which hold the
\* wrappers for wrapped operands
lincomb_no_apply(x1_apply, x2_apply) ==
    SameFn(x1_apply, apply_not_impl) \/ SameFn(x2_apply, apply_not_impl)

\* lincomb whose closures look their operands up when they are evaluated:
\* rewriting out rebinds the closures that were made from out
lincomb_kernel_LateBound(vs, a, x1, b, x2, out, id) ==
    LET vect == lincomb_vect(vs[x1], vs[x2])
        x1_call == wrap_call(vect, vs[x1])
        x1_apply == wrap_apply(vect, vs[x1])
        x2_call == wrap_call(vect, vs[x2])
        x2_apply == wrap_apply(vect, vs[x2])
        lincomb_call == [k |-> "lincomb_call", id |-> id, a |-> a, b |-> b,
                         x1_call |-> x1_call, x2_call |-> x2_call]
        lincomb_apply == [k |-> "lincomb_apply", id |-> id, a |-> a, b |-> b,
                          x1_apply |-> x1_apply, x2_apply |-> x2_apply]
        binary == {"lincomb_call", "product_call", "quotient_call"}
        rebound(f) ==
            IF f.k \in binary
            THEN [f EXCEPT
                    !.x1_call = IF SameFn(@, vs[out].call) THEN lincomb_call ELSE @,
                    !.x2_call = IF SameFn(@, vs[out].call) THEN lincomb_call ELSE @]
            ELSE IF f.k = "power_call" /\ SameFn(f.x_call, vs[out].call)
            THEN [f EXCEPT !.x_call = lincomb_call]
            ELSE f
    IN  [i \in DOMAIN vs |->
            IF i = out
            THEN [vs[i] EXCEPT
                    !.call = lincomb_call, !.vectorized = vect,
                    !.apply = IF lincomb_no_apply(x1_apply, x2_apply)
                              THEN apply_not_impl ELSE lincomb_apply]
            ELSE [vs[i] EXCEPT !.call = rebound(@)]]

lincomb_kernel(vs, a, x1, b, x2, out, id) ==
    LET vect == lincomb_vect(vs[x1], vs[x2])
        x1_call == wrap_call(vect, vs[x1])
        x1_apply == wrap_apply(vect, vs[x1])
        x2_call == wrap_call(vect, vs[x2])
        x2_apply == wrap_apply(vect, vs[x2])
        lincomb_call == [k |-> "lincomb_call", id |-> id, a |-> a, b |-> b,
                         x1_call |-> x1_call, x2_call |-> x2_call]
        lincomb_apply == [k |-> "lincomb_apply", id |-> id, a |-> a, b |-> b,
                          x1_apply |-> x1_apply, x2_apply |-> x2_apply]
        vs1 == [vs EXCEPT ![out].call = lincomb_call]
        vs2 == [vs1 EXCEPT ![out].vectorized = vect]
    IN  [vs2 EXCEPT ![out].apply = IF lincomb_no_apply(x1_apply, x2_apply)
                                   THEN apply_not_impl ELSE lincomb_apply]

\* the flag of the first factor alone
product_vect_FirstOnly(x1, x2) == x1.vectorized

product_vect(x1, x2) == x1.vectorized \/ x2.vectorized

\* `_apply_not_impl in (x1._apply, x2._apply)`: the operands' attributes, read
\* after out._call and out._vectorized were written
product_no_apply(x1, x2) ==
    SameFn(x1.apply, apply_not_impl) \/ SameFn(x2.apply, apply_not_impl)

multiply_kernel(vs, x1, x2, out, id) ==
    LET vect == product_vect(vs[x1], vs[x2])
        product_call == [k |-> "product_call", id |-> id,
                         x1_call |-> wrap_call(vect, vs[x1]),
                         x2_call |-> wrap_call(vect, vs[x2])]
        product_apply == [k |-> "product_apply", id |-> id,
                          x1_apply |-> wrap_apply(vect, vs[x1]),
                          x2_apply |-> wrap_apply(vect, vs[x2])]
        vs1 == [vs EXCEPT ![out].call = product_call]
        vs2 == [vs1 EXCEPT ![out].vectorized = vect]
    IN  [vs2 EXCEPT ![out].apply = IF product_no_apply(vs2[x1], vs2[x2])
                                   THEN apply_not_impl ELSE product_apply]

quotient_vect(x1, x2) == x1.vectorized \/ x2.vectorized

quotient_no_apply(x1, x2) ==
    SameFn(x1.apply, apply_not_impl) \/ SameFn(x2.apply, apply_not_impl)

divide_kernel(vs, x1, x2, out, id) ==
    LET vect == quotient_vect(vs[x1], vs[x2])
        quotient_call == [k |-> "quotient_call", id |-> id,
                          x1_call |-> wrap_call(vect, vs[x1]),
                          x2_call |-> wrap_call(vect, vs[x2])]
        quotient_apply == [k |-> "quotient_apply", id |-> id,
                           x1_apply |-> wrap_apply(vect, vs[x1]),
                           x2_apply |-> wrap_apply(vect, vs[x2])]
        vs1 == [vs EXCEPT ![out].call = quotient_call]
        vs2 == [vs1 EXCEPT ![out].vectorized = vect]
    IN  [vs2 EXCEPT ![out].apply = IF quotient_no_apply(vs2[x1], vs2[x2])
                                   THEN apply_not_impl ELSE quotient_apply]

scalar_power_kernel(vs, x, p, out, id) ==
    LET x_call == vs[x].call
        x_apply == vs[x].apply
        power_call == [k |-> "power_call", id |-> id, p |-> p, x_call |-> x_call]
        power_apply == [k |-> "power_apply", id |-> id, p |-> p,
                        x_apply |-> x_apply]
        vs1 == [vs EXCEPT ![out].call = power_call]
        vs2 == [vs1 EXCEPT ![out].vectorized = vs1[x].vectorized]
    IN  [vs2 EXCEPT ![out].apply = IF SameFn(x_apply, apply_not_impl)
                                   THEN apply_not_impl ELSE power_apply]

\* divide without the membership check of out
divide_check_NoOut(x1_in, x2_in, out_in) ==
    IF ~x1_in THEN "TypeError"
    ELSE IF ~x2_in THEN "TypeError"
    ELSE "ok"

\* FunctionSpace.divide: the error its checks raise, "ok" if they pass, from
\* the outcomes of `x1 in self`, `x2 in self` and `out in self`
divide_check(x1_in, x2_in, out_in) ==
    IF ~x1_in THEN "TypeError"
    ELSE IF ~x2_in THEN "TypeError"
    ELSE IF ~out_in THEN "TypeError"
    ELSE "ok"

\* FunctionSet.Vector.assign: the error raised, "ok" if none
assign_check(self, other, vs) ==
    IF ~Member(vs[self].space, other, vs) THEN "TypeError" ELSE "ok"

\* assign that leaves self's apply function in place
assign_state_KeepApply(self, other) ==
    [space |-> self.space, call |-> other.call, apply |-> self.apply,
     vectorized |-> other.vectorized]

\* FunctionSet.Vector.assign: the state of self afterwards
assign_state(self, other) ==
    [space |-> self.space, call |-> other.call, apply |-> other.apply,
     vectorized |-> other.vectorized]

\* FunctionSet.Vector.__eq__
VecEq(self, other, vs) ==
    \/ other = self
    \/ /\ other \in Slots
       /\ SpaceEq(vs[self].space, vs[other].space)
       /\ SameFn(vs[self].call, vs[other].call)
       /\ SameFn(vs[self].apply, vs[other].apply)
       /\ vs[self].vectorized = vs[other].vectorized

(***************************************************************************)
(* Evaluation of a Vector, FunctionSet.Vector.__call__.                    *)
(***************************************************************************)
\* IntervalProd.contains for the two intervals
contains(domain, pt) ==
    CASE domain = "[-1, 1]" -> -pt[2] <= pt[1] /\ pt[1] <= pt[2]
      [] domain = "[0, 1]" -> 0 <= pt[1] /\ pt[1] <= pt[2]
      [] OTHER -> FALSE

\* IntervalProd.contains_all
contains_all(domain, arr) == \A i \in DOMAIN arr : contains(domain, arr[i])

\* `x in self.domain`: x is a single point of the domain
in_domain(domain, x) == x.k = "point" /\ contains(domain, x.v[1])

\* is_valid_input_array(x, 1)
is_valid_input_array(x) == x.k = "array"

\* RealNumbers.contains_all(out): every array of finite numbers
range_contains_all(range, arr) == range = "RealNumbers"

\* the bounds check skipped
bounds_ok_Unchecked(vec_bounds_check, domain, arr) == TRUE

\* `if vec_bounds_check: if not self.domain.contains_all(x): raise`
bounds_ok(vec_bounds_check, domain, arr) ==
    vec_bounds_check => contains_all(domain, arr)

\* the branch `if self.vectorized:` of __call__ with out None and with out given
VectorCall_vec(v, x, out, vec_bounds_check) ==
    LET xa == IF in_domain(v.space.domain, x) THEN Array(x.v) ELSE x
        scalar_out == in_domain(v.space.domain, x) /\ out.k = "None"
        out_shape == Len(xa.v)
    IN  IF ~is_valid_input_array(xa)
        THEN EvalRes("TypeError", << >>, FALSE, FALSE, FALSE)
        ELSE IF ~bounds_ok(vec_bounds_check, v.space.domain, xa.v)
        THEN EvalRes("ValueError", << >>, FALSE, FALSE, FALSE)
        ELSE IF out.k = "None"
        THEN LET e == CallV(v.call, << xa.v >>, 1)
             IN  IF e.err # "ok" THEN EvalRes(e.err, << >>, FALSE, TRUE, FALSE)
                 ELSE IF Len(e.h[e.r]) # out_shape
                 THEN EvalRes("ValueError", << >>, FALSE, TRUE, FALSE)
                 ELSE IF vec_bounds_check
                         /\ ~range_contains_all(v.space.range, e.h[e.r])
                 THEN EvalRes("ValueError", << >>, FALSE, TRUE, FALSE)
                 ELSE EvalRes("ok", e.h[e.r], scalar_out, TRUE, FALSE)
        ELSE IF out.k # "array"
        THEN EvalRes("TypeError", << >>, FALSE, FALSE, FALSE)
        ELSE IF Len(out.v) # out_shape
        THEN EvalRes("ValueError", << >>, FALSE, FALSE, FALSE)
        ELSE LET e == ApplyV(v.apply, << xa.v, out.v >>, 1, 2)
             IN  IF e.err # "ok" THEN EvalRes(e.err, << >>, FALSE, FALSE, TRUE)
                 ELSE IF vec_bounds_check
                         /\ ~range_contains_all(v.space.range, e.h[2])
                 THEN EvalRes("ValueError", << >>, FALSE, FALSE, TRUE)
                 ELSE EvalRes("ok", e.h[2], FALSE, FALSE, TRUE)

\* the non-vectorized branch without the test `x not in self.domain`
VectorCall_novec_NoDomainCheck(v, x, out) ==
    IF out.k = "None"
    THEN LET e == IF x.k = "point" THEN CallS(v.call, x.v[1]) ELSE Fail("TypeError")
         IN  IF e.err # "ok" THEN EvalRes(e.err, << >>, FALSE, TRUE, FALSE)
             ELSE EvalRes("ok", << e.v >>, TRUE, TRUE, FALSE)
    ELSE EvalRes("ValueError", << >>, FALSE, FALSE, FALSE)

\* the branch `else:  # not self.vectorized`
VectorCall_novec(v, x, out) ==
    IF ~in_domain(v.space.domain, x)
    THEN EvalRes("TypeError", << >>, FALSE, FALSE, FALSE)
    ELSE IF out.k = "None"
    THEN LET e == CallS(v.call, x.v[1])
         IN  IF e.err # "ok" THEN EvalRes(e.err, << >>, FALSE, TRUE, FALSE)
             ELSE EvalRes("ok", << e.v >>, TRUE, TRUE, FALSE)
    ELSE EvalRes("ValueError", << >>, FALSE, FALSE, FALSE)

\* __call__ that evaluates out of place when the apply function is missing
VectorCall_Fallback(v, x, out, vec_bounds_check) ==
    IF v.vectorized
    THEN IF SameFn(v.apply, apply_not_impl)
         THEN VectorCall_vec(v, x, NoOut, vec_bounds_check)
         ELSE VectorCall_vec(v, x, out, vec_bounds_check)
    ELSE VectorCall_novec(v, x, out)

\* FunctionSet.Vector.__call__(x, out, vec_bounds_check=...)
VectorCall(v, x, out, vec_bounds_check) ==
    IF v.vectorized THEN VectorCall_vec(v, x, out, vec_bounds_check)
    ELSE VectorCall_novec(v, x, out)

(***************************************************************************)
(* element on a Vector, and copy.                                          *)
(***************************************************************************)
\* what element returns: the Vector v it was given ("same"), a Vector it
\* created ("new"), or None
Returned(err, kind, vec) == [err |-> err, kind |-> kind, vec |-> vec]

\* element on a Vector that wraps again whatever the flag asked for
element_of_vector_AlwaysNew(fset, v, fapply, vectorized) ==
    LET r == VectorInit(fset, v.call, v.apply, v.vectorized)
    IN  Returned(r.err, IF r.err = "ok" THEN "new" ELSE "None", r.vec)

\* FunctionSet.element(fcall, fapply, vectorized) with fcall the Vector v: the
\* branch `if isinstance(fcall, self.Vector)`
element_of_vector(fset, v, fapply, vectorized) ==
    IF fapply = None
    THEN IF vectorized = v.vectorized
         THEN Returned("ok", "same", v)
         ELSE LET r == VectorInit(fset, v.call, v.apply, v.vectorized)
              IN  Returned(r.err, IF r.err = "ok" THEN "new" ELSE "None", r.vec)
    ELSE Returned("ok", "None", None)

\* copy that returns the element it allocated, nothing assigned
copy_NoAssign(vs, self, id) ==
    [err |-> "ok", vec |-> zero(vs[self].space, TRUE, id)]

\* FunctionSet.Vector.copy: result = self.space.element(); result.assign(self)
copy(vs, self, id) ==
    LET result == zero(vs[self].space, TRUE, id)
        store == [i \in DOMAIN vs \cup {NewObject} |->
                     IF i = NewObject THEN result ELSE vs[i]]
        err == assign_check(NewObject, self, store)
    IN  [err |-> err,
         vec |-> IF err = "ok" THEN assign_state(result, vs[self]) ELSE result]

(***************************************************************************)
(* The operators of FunctionSpace.Vector.                                  *)
(***************************************************************************)
\* the attributes and properties of a Vector and the keywords of element
VectorAttributes ==
    {"_call", "_apply", "_vectorized", "space", "domain", "range", "vectorized"}
element_keywords == {"fcall", "fapply", "vectorized"}

\* __iadd__, __isub__, __imul__, __itruediv__ with `other in self.space`, and
\* __ipow__: the objects afterwards and what the method returns, which the
\* name on the left of the operator is then bound to
inplace_operator(vs, sym, self, other, p, id) ==
    CASE sym = "iadd" ->
            [vs |-> lincomb_kernel(vs, 1, self, 1, other, self, id), ret |-> self]
      [] sym = "isub" ->
            [vs |-> lincomb_kernel(vs, 1, self, -1, other, self, id), ret |-> self]
      [] sym = "imul" ->
            [vs |-> multiply_kernel(vs, self, other, self, id), ret |-> self]
      [] sym = "itruediv" ->
            [vs |-> divide_kernel(vs, self, other, self, id), ret |-> self]
      \* return self.space._scalar_power(self, p, out=self), which returns None
      [] OTHER ->
            [vs |-> scalar_power_kernel(vs, self, p, self, id),
             ret |-> NotAVector]

\* __neg__: out = self.space.element(vectorization=self.vectorization);
\* self.space.lincomb(-1.0, self, out=out); return out
neg(vs, self, id) ==
    LET store == [i \in DOMAIN vs \cup {NewObject} |->
                     IF i = NewObject THEN zero(vs[self].space, TRUE, id)
                     ELSE vs[i]]
    IN  IF "vectorization" \notin VectorAttributes
        THEN [err |-> "AttributeError", vec |-> None]
        ELSE IF "vectorization" \notin element_keywords
        THEN [err |-> "TypeError", vec |-> None]
        ELSE [err |-> "ok",
              vec |-> lincomb_kernel(store, -1, self, 0, self, NewObject,
                                     id + 1)[NewObject]]


(***************************************************************************)
(* Operations.                                                             *)
(***************************************************************************)
\* the coefficients handed to lincomb
Scalars == {0, 1, 2}
\* the exponents handed to _scalar_power
Powers == 0 .. MaxPow

\* the arguments of element(fcall, fapply, vectorized=...) that callers use
ElementArgs ==
    { << Raw("ident"), None, TRUE >>,
      << Raw("ident"), Raw("ident_apply"), TRUE >>,
      << Raw("succ"), None, TRUE >>,
      << Raw("succ"), Raw("succ_apply"), TRUE >>,
      << Raw("succ_nv"), None, FALSE >>,
      << Raw("ident_nv"), None, FALSE >>,
      << Raw("succ_nv"), Raw("succ_apply"), FALSE >> }

\* name = space.element(fcall, fapply, vectorized=vectorized), fcall no Vector
Element(o, args) ==
    LET r == VectorInit(vecs[o].space, args[1], args[2], args[3])
    IN  /\ nops < MaxOps
        /\ nops' = nops + 1
        /\ vecs' = IF r.err = "ok" THEN [vecs EXCEPT ![o] = r.vec] ELSE vecs
        /\ last' = [Rec("element", 0, 0, 0, 0, 0, o, r.err, vecs) EXCEPT
                        !.ret = IF r.err = "ok" THEN o ELSE NotAVector,
                        !.new = (r.err = "ok"),
                        !.fset = vecs[o].space, !.fapply = args[2],
                        !.vectorized = args[3]]
        /\ UNCHANGED nfun
        /\ UNCHANGED << ot, impl >>

\* space._lincomb(a, x1, b, x2, out) on Vectors of the space
Lincomb(a, x1, b, x2, out) ==
    /\ nops < MaxOps
    /\ Member(vecs[out].space, x1, vecs)
    /\ Member(vecs[out].space, x2, vecs)
    /\ nops' = nops + 1
    /\ nfun' = nfun + 1
    /\ vecs' = lincomb_kernel(vecs, a, x1, b, x2, out, nfun + 1)
    /\ last' = [Rec("lincomb", a, b, 0, x1, x2, out, "ok", vecs) EXCEPT
                    !.ret = out]
    /\ UNCHANGED << ot, impl >>

\* space._multiply(x1, x2, out) on Vectors of the space
Multiply(x1, x2, out) ==
    /\ nops < MaxOps
    /\ Member(vecs[out].space, x1, vecs)
    /\ Member(vecs[out].space, x2, vecs)
    /\ nops' = nops + 1
    /\ nfun' = nfun + 1
    /\ vecs' = multiply_kernel(vecs, x1, x2, out, nfun + 1)
    /\ last' = [Rec("multiply", 0, 0, 0, x1, x2, out, "ok", vecs) EXCEPT
                    !.ret = out]
    /\ UNCHANGED << ot, impl >>

\* fset.divide(x1, x2, out) with out given
Divide(fset, x1, x2, out) ==
    LET err == divide_check(Member(fset, x1, vecs), Member(fset, x2, vecs),
                            Member(fset, out, vecs))
    IN  /\ nops < MaxOps
        /\ nops' = nops + 1
        /\ nfun' = IF err = "ok" THEN nfun + 1 ELSE nfun
        /\ vecs' = IF err = "ok" THEN divide_kernel(vecs, x1, x2, out, nfun + 1)
                   ELSE vecs
        /\ last' = [Rec("divide", 0, 0, 0, x1, x2, out, err, vecs) EXCEPT
                        !.ret = IF err = "ok" THEN out ELSE NotAVector]
        /\ UNCHANGED << ot, impl >>

\* name = fset.divide(x1, x2): out is a new element of fset, which the name
\* is bound to when the call returns
DivideNew(fset, x1, x2, name) ==
    LET vs == [i \in Slots \cup {NewObject} |->
                  IF i = NewObject THEN zero(fset, TRUE, nfun + 1) ELSE vecs[i]]
        err == divide_check(Member(fset, x1, vs), Member(fset, x2, vs),
                            Member(fset, NewObject, vs))
    IN  /\ nops < MaxOps
        /\ nops' = nops + 1
        /\ nfun' = IF err = "ok" THEN nfun + 2 ELSE nfun + 1
        /\ vecs' = IF err = "ok"
                   THEN [vecs EXCEPT
                           ![name] = divide_kernel(vs, x1, x2, NewObject,
                                                   nfun + 2)[NewObject]]
                   ELSE vecs
        /\ last' = [Rec("divide_new", 0, 0, 0, x1, x2, name, err, vecs) EXCEPT
                        !.ret = IF err = "ok" THEN name ELSE NotAVector,
                        !.new = (err = "ok")]
        /\ UNCHANGED << ot, impl >>

\* space._scalar_power(x, p, out) on Vectors of the space
ScalarPower(x, p, out) ==
    /\ nops < MaxOps
    /\ Member(vecs[out].space, x, vecs)
    /\ nops' = nops + 1
    /\ nfun' = nfun + 1
    /\ vecs' = scalar_power_kernel(vecs, x, p, out, nfun + 1)
    /\ last' = Rec("scalar_power", 0, 0, p, x, 0, out, "ok", vecs)
    /\ UNCHANGED << ot, impl >>

\* self.assign(other)
Assign(self, other) ==
    LET err == assign_check(self, other, vecs)
    IN  /\ nops < MaxOps
        /\ nops' = nops + 1
        /\ vecs' = IF err = "ok"
                   THEN [vecs EXCEPT ![self] = assign_state(vecs[self], vecs[other])]
                   ELSE vecs
        /\ last' = Rec("assign", 0, 0, 0, other, 0, self, err, vecs)
        /\ UNCHANGED nfun
        /\ UNCHANGED << ot, impl >>

\* name = fset.element(v, fapply, vectorized=vectorized), v a Vector; the name
\* is bound to what the call returns
ElementOf(fset, o, v, fapply, vectorized) ==
    LET r == element_of_vector(fset, vecs[v], fapply, vectorized)
    IN  /\ nops < MaxOps
        /\ o # v
        /\ nops' = nops + 1
        /\ vecs' = IF r.kind = "new" THEN [vecs EXCEPT ![o] = r.vec] ELSE vecs
        /\ last' = [Rec("element_of", 0, 0, 0, v, 0, o, r.err, vecs) EXCEPT
                        !.ret = CASE r.kind = "same" -> v
                                  [] r.kind = "new" -> o
                                  [] OTHER -> NotAVector,
                        !.new = (r.kind = "new"),
                        !.fset = fset, !.fapply = fapply,
                        !.vectorized = vectorized]
        /\ UNCHANGED nfun
        /\ UNCHANGED << ot, impl >>

\* name = space.zero(vectorized) and name = space.one(vectorized), space being
\* the space of the Vector the name was bound to
MakeZero(o, vectorized) ==
    /\ nops < MaxOps
    /\ nops' = nops + 1
    /\ nfun' = nfun + 1
    /\ vecs' = [vecs EXCEPT ![o] = zero(vecs[o].space, vectorized, nfun + 1)]
    /\ last' = [Rec("zero", 0, 0, 0, 0, 0, o, "ok", vecs) EXCEPT
                    !.ret = o, !.new = TRUE, !.fset = vecs[o].space,
                    !.vectorized = vectorized]
    /\ UNCHANGED << ot, impl >>

MakeOne(o, vectorized) ==
    /\ nops < MaxOps
    /\ nops' = nops + 1
    /\ nfun' = nfun + 1
    /\ vecs' = [vecs EXCEPT ![o] = one(vecs[o].space, vectorized, nfun + 1)]
    /\ last' = [Rec("one", 0, 0, 0, 0, 0, o, "ok", vecs) EXCEPT
                    !.ret = o, !.new = TRUE, !.fset = vecs[o].space,
                    !.vectorized = vectorized]
    /\ UNCHANGED << ot, impl >>

\* name = self.copy()
Copy(o, self) ==
    LET r == copy(vecs, self, nfun + 1)
    IN  /\ nops < MaxOps
        /\ o # self
        /\ nops' = nops + 1
        /\ nfun' = nfun + 1
        /\ vecs' = IF r.err = "ok" THEN [vecs EXCEPT ![o] = r.vec] ELSE vecs
        /\ last' = [Rec("copy", 0, 0, 0, self, 0, o, r.err, vecs) EXCEPT
                        !.ret = IF r.err = "ok" THEN o ELSE NotAVector,
                        !.new = (r.err = "ok")]
        /\ UNCHANGED << ot, impl >>

\* self op= other for the operators += -= *= /= and self **= p
InPlaceOperators == {"iadd", "isub", "imul", "itruediv"}

InPlace(sym, self, other, p) ==
    LET r == inplace_operator(vecs, sym, self, other, p, nfun + 1)
    IN  /\ nops < MaxOps
        /\ Member(vecs[self].space, other, vecs)
        /\ nops' = nops + 1
        /\ nfun' = nfun + 1
        /\ vecs' = r.vs
        /\ last' = [Rec(sym, 0, 0, p, self, other, self, "ok", vecs) EXCEPT
                        !.ret = r.ret]
        /\ UNCHANGED << ot, impl >>

\* name = -self
Neg(o, self) ==
    LET r == neg(vecs, self, nfun + 1)
    IN  /\ nops < MaxOps
        /\ o # self
        /\ nops' = nops + 1
        /\ nfun' = IF r.err = "ok" THEN nfun + 2 ELSE nfun
        /\ vecs' = IF r.err = "ok" THEN [vecs EXCEPT ![o] = r.vec] ELSE vecs
        /\ last' = [Rec("neg", 0, 0, 0, self, 0, o, r.err, vecs) EXCEPT
                        !.ret = IF r.err = "ok" THEN o ELSE NotAVector,
                        !.new = (r.err = "ok")]
        /\ UNCHANGED << ot, impl >>

\* the arguments that callers evaluate Vectors at
EvalInputs ==
    { Point(1), Point(2), Array(<< Num(0), Num(1) >>),
      Array(<< Num(1), Num(-1) >>), Array(<< Num(1), Num(2) >>), Other }

\* an out array of the shape that x asks for, holding old values
OutBuffer(x) ==
    IF x.k = "array" THEN Array(ArrFill(x.v, Num(7))) ELSE Array(<< Num(7) >>)

\* v(x, vec_bounds_check=...) and v(x, out=buf, vec_bounds_check=...)
Evaluate(v, x, with_out, vec_bounds_check) ==
    LET out == IF with_out THEN OutBuffer(x) ELSE NoOut
        res == VectorCall(vecs[v], x, out, vec_bounds_check)
    IN  /\ nops < MaxOps
        /\ nops' = nops + 1
        /\ last' = [Rec("call", 0, 0, 0, v, 0, 0, res.err, vecs) EXCEPT
                        !.arg = EvalArg(x, out, vec_bounds_check),
                        !.res = res]
        /\ UNCHANGED << vecs, nfun >>
        /\ UNCHANGED << ot, impl >>

Next ==
    \/ \E o \in Slots, args \in ElementArgs : Element(o, args)
    \/ \E a \in Scalars, b \in Scalars, x1 \in Slots, x2 \in Slots, out \in Slots :
          Lincomb(a, x1, b, x2, out)
    \/ \E x1 \in Slots, x2 \in Slots, out \in Slots : Multiply(x1, x2, out)
    \/ \E x1 \in Slots, x2 \in Slots, out \in Slots : Divide(Sp1, x1, x2, out)
    \/ \E x1 \in Slots, x2 \in Slots, name \in Slots : DivideNew(Sp1, x1, x2, name)
    \/ \E x \in Slots, p \in Powers, out \in Slots : ScalarPower(x, p, out)
    \/ \E self \in Slots, other \in Slots \cup {NotAVector} : Assign(self, other)
    \/ \E fset \in {Sp1, Sp2}, o \in Slots, v \in Slots,
          fapply \in {None, Raw("succ_apply")}, vectorized \in BOOLEAN :
          ElementOf(fset, o, v, fapply, vectorized)
    \/ \E o \in Slots, vectorized \in BOOLEAN : MakeZero(o, vectorized)
    \/ \E o \in Slots, vectorized \in BOOLEAN : MakeOne(o, vectorized)
    \/ \E o \in Slots, self \in Slots : Copy(o, self)
    \/ \E sym \in InPlaceOperators, self \in Slots, other \in Slots :
          InPlace(sym, self, other, 0)
    \/ \E self \in Slots, p \in Powers : InPlace("ipow", self, self, p)
    \/ \E o \in Slots, self \in Slots : Neg(o, self)
    \/ \E v \in Slots, x \in EvalInputs, with_out \in BOOLEAN,
          vec_bounds_check \in BOOLEAN : Evaluate(v, x, with_out, vec_bounds_check)

Spec == Init /\ [][Next]_vars

(***************************************************************************)
(* A kernel result and the later mutation of its operands.                 *)
(***************************************************************************)
\* the states after h = kernel(f, g) on the first Vectors, h another Vector
\* than f and g
Produced ==
    LET names == { t \in Slots \X Slots \X Slots :
                     /\ Member(InitVecs[t[3]].space, t[1], InitVecs)
                     /\ Member(InitVecs[t[3]].space, t[2], InitVecs)
                     /\ t[3] \notin {t[1], t[2]} }
        made(op, a, b, p, t, vs) ==
            [vecs |-> vs,
             last |-> [Rec(op, a, b, p, t[1], t[2], t[3], "ok", InitVecs) EXCEPT
                          !.ret = t[3]]]
    IN       { made("lincomb", a, b, 0, t,
                    lincomb_kernel(InitVecs, a, t[1], b, t[2], t[3], 1)) :
               a \in {1, 2}, b \in {0, 1}, t \in names }
        \cup { made("multiply", 0, 0, 0, t,
                    multiply_kernel(InitVecs, t[1], t[2], t[3], 1)) : t \in names }
        \cup { made("divide", 0, 0, 0, t,
                    divide_kernel(InitVecs, t[1], t[2], t[3], 1)) : t \in names }
        \cup { made("scalar_power", 0, 0, p, t,
                    scalar_power_kernel(InitVecs, t[1], p, t[3], 1)) :
               p \in {2, 3}, t \in {u \in names : u[2] = u[1]} }

InitFrame ==
    /\ \E s \in Produced : vecs = s.vecs /\ last = s.last
    /\ nfun = 1
    /\ nops = 0
    /\ ot = OperatorTest(IdentityOperator, NoNorm)
    /\ impl = AstraProjectorImpl("Parallel2dGeometry", TRUE)

\* f.assign(other), or a kernel with out = f
NextFrame ==
    \/ \E self \in Slots, other \in Slots : Assign(self, other)
    \/ \E a \in Scalars, f \in Slots, x2 \in Slots : Lincomb(a, f, 1, x2, f)
    \/ \E f \in Slots, x2 \in Slots : Multiply(f, x2, f)
    \/ \E f \in Slots, x2 \in Slots : Divide(Sp1, f, x2, f)
    \/ \E f \in Slots, p \in Powers : ScalarPower(f, p, f)

SpecFrame == InitFrame /\ [][NextFrame]_vars

(***************************************************************************)
(* The calls made on an OperatorTest object.                               *)
(***************************************************************************)
\* number of calls made on the test object in a run
MaxCalls == 2

\* the object at the start of a call of one of its methods
Begin(t, method) ==
    [t EXCEPT !.log = << >>, !.err = "ok", !.failed = NoCounts,
              !.method = method, !.pre_norm = t.operator_norm,
              !.calls = t.calls + 1]

InitOT ==
    /\ vecs = InitVecs
    /\ nfun = 0
    /\ nops = 0
    /\ last = Rec("init", 0, 0, 0, 0, 0, 0, "ok", InitVecs)
    /\ ot \in { OperatorTest(operator, operator_norm) :
                    operator \in Operators, operator_norm \in GivenNorms }
    /\ impl = AstraProjectorImpl("Parallel2dGeometry", TRUE)

\* test.norm()
TestNorm ==
    /\ ot.calls < MaxCalls
    /\ ot' = norm(Begin(ot, "norm"))
    /\ UNCHANGED << vecs, nfun, nops, last, impl >>

\* test.linear()
TestLinear ==
    /\ ot.calls < MaxCalls
    /\ ot' = linear(Begin(ot, "linear"))
    /\ UNCHANGED << vecs, nfun, nops, last, impl >>

\* test.adjoint()
TestAdjoint ==
    /\ ot.calls < MaxCalls
    /\ ot' = adjoint(Begin(ot, "adjoint"))
    /\ UNCHANGED << vecs, nfun, nops, last, impl >>

\* test.derivative()
TestDerivative ==
    /\ ot.calls < MaxCalls
    /\ ot' = derivative(Begin(ot, "derivative"), DefaultStep)
    /\ UNCHANGED << vecs, nfun, nops, last, impl >>

\* test.run_tests()
RunTests ==
    /\ ot.calls < MaxCalls
    /\ ot' = run_tests(Begin(ot, "run_tests"))
    /\ UNCHANGED << vecs, nfun, nops, last, impl >>

NextOT ==
    \/ TestNorm
    \/ TestLinear
    \/ TestAdjoint
    \/ TestDerivative
    \/ RunTests

SpecOT == InitOT /\ [][NextOT]_vars

(***************************************************************************)
(* The life of an AstraProjectorImpl.                                      *)
(***************************************************************************)
\* the volumes and the out arguments handed to call_forward
Volumes ==
    { [k |-> "DiscreteLpElement", ndim |-> 2, v |-> Num(1)],
      [k |-> "DiscreteLpElement", ndim |-> 2, v |-> Num(3)],
      [k |-> "DiscreteLpElement", ndim |-> 3, v |-> Num(1)],
      [k |-> "ndarray", ndim |-> 2, v |-> Num(1)] }
Outs == {"None", "DiscreteLpElement", "ndarray"}

\* the object at the start of a call of one of its methods
Enter(s, method) ==
    [s EXCEPT !.method = method, !.vol_data = Num(0), !.out = "None",
              !.err = "ok", !.ret = Num(0), !.issued = << >>]

InitAstra ==
    /\ vecs = InitVecs
    /\ nfun = 0
    /\ nops = 0
    /\ last = Rec("init", 0, 0, 0, 0, 0, 0, "ok", InitVecs)
    /\ ot = OperatorTest(IdentityOperator, NoNorm)
    /\ impl \in { AstraProjectorImpl(geometry, use_cache) :
                    geometry \in {"Parallel2dGeometry", "FanFlatGeometry"},
                    use_cache \in BOOLEAN }

\* impl.call_forward(vol_data, out)
CallForward(vol_data, out) ==
    /\ impl.alive
    /\ impl.calls < MaxCalls
    /\ impl' = [call_forward(Enter(impl, "call_forward"), vol_data, out)
                   EXCEPT !.calls = @ + 1, !.vol_data = vol_data.v,
                          !.out = out]
    /\ UNCHANGED << vecs, nfun, nops, last, ot >>

\* the object is garbage collected: __del__
Destroy ==
    /\ impl.alive
    /\ impl' = [delete_ids(Enter(impl, "__del__")) EXCEPT !.alive = FALSE]
    /\ UNCHANGED << vecs, nfun, nops, last, ot >>

NextAstra ==
    \/ \E vol_data \in Volumes, out \in Outs : CallForward(vol_data, out)
    \/ Destroy

SpecAstra == InitAstra /\ [][NextAstra]_vars

(***************************************************************************)
(* Properties.                                                             *)
(***************************************************************************)
\* the inputs the elements are evaluated at: arrays of points of the domain
TestArrays == { << Num(0), Num(1) >>, << Num(1), Num(-1) >> }

Defined(apply) == ~SameFn(apply, apply_not_impl)

\* v(input): the values of the Vector v at the points of arr, by its call
\* function (on the array if v is vectorized, point by point otherwise)
Values(v, arr) ==
    IF v.vectorized
    THEN LET e == CallV(v.call, << arr >>, 1)
         IN  [err |-> e.err, val |-> IF e.err = "ok" THEN e.h[e.r] ELSE << >>]
    ELSE LET rs == [i \in DOMAIN arr |-> CallS(v.call, arr[i])]
         IN  [err |-> FirstErr(rs),
              val |-> IF FirstErr(rs) = "ok" THEN [i \in DOMAIN arr |-> rs[i].v]
                      ELSE << >>]

\* v(input, out=buf): the content of buf after the in-place evaluation
ValuesInPlace(v, arr) ==
    LET e == ApplyV(v.apply, << arr, ArrFill(arr, Num(7)) >>, 1, 2)
    IN  [err |-> e.err, val |-> IF e.err = "ok" THEN e.h[2] ELSE << >>]

KernelOps == {"lincomb", "multiply", "divide", "divide_new"}
Done(op) == last.op = op /\ last.err = "ok"
PreX1 == last.pre[last.x1]
PreX2 == last.pre[last.x2]
PreOut == last.pre[last.out]
Out == vecs[last.out]

\* C1: every Vector whose apply function is defined is vectorized.
C1_ApplyImpliesVectorized ==
    \A i \in Slots : Defined(vecs[i].apply) => vecs[i].vectorized

\* C1 witness: a kernel wrote a defined apply into an operand it aliases
C1_Witness ==
    /\ Done("lincomb")
    /\ last.out = last.x1
    /\ Defined(Out.apply)
    /\ Out.vectorized

\* C2 (as claimed): after lincomb(a, x1, b, x2, out), out evaluates at every
\* input to a * x1(input) + b * x2(input).
C2_LincombValue ==
    Done("lincomb") =>
        \A arr \in TestArrays :
            LET v1 == Values(PreX1, arr)
                v2 == Values(PreX2, arr)
                vo == Values(Out, arr)
            IN  (v1.err = "ok" /\ v2.err = "ok") =>
                    /\ vo.err = "ok"
                    /\ vo.val = ArrAdd(ArrScale(v1.val, Num(last.a)),
                                       ArrScale(v2.val, Num(last.b)))

\* C3 (as claimed): lincomb(a, f, b, f, out=f) leaves f evaluating to (a + b)
\* times the value f had before, at every input.
C3_SelfAliasedLincomb ==
    (Done("lincomb") /\ last.x1 = last.out /\ last.x2 = last.out) =>
        \A arr \in TestArrays :
            LET v == Values(PreOut, arr)
                vo == Values(Out, arr)
            IN  v.err = "ok" =>
                    /\ vo.err = "ok"
                    /\ vo.val = ArrScale(v.val, Num(last.a + last.b))

\* C4: after lincomb, multiply or divide, out.vectorized is x1.vectorized or
\* x2.vectorized as they were before the call, whatever out's flag was.
C4_VectorizedIsOr ==
    (last.op \in KernelOps /\ last.err = "ok") =>
        Out.vectorized = (PreX1.vectorized \/ PreX2.vectorized)

\* C4 witness: a kernel call that changed the flag of its out
C4_Witness ==
    /\ last.op \in {"multiply", "divide"}
    /\ last.err = "ok"
    /\ PreOut.vectorized
    /\ ~Out.vectorized

\* C5 (as claimed): lincomb with a vectorized out and two non-vectorized
\* operands leaves out vectorized.
C5_OutStaysVectorized ==
    (Done("lincomb") /\ PreOut.vectorized /\ ~PreX1.vectorized /\ ~PreX2.vectorized)
        => Out.vectorized

\* C5 (amended): lincomb with a vectorized out and two non-vectorized operands
\* leaves out non-vectorized, its call function combining the operands' call
\* functions unwrapped.
C5_OutBecomesNonVectorized ==
    (Done("lincomb") /\ PreOut.vectorized /\ ~PreX1.vectorized /\ ~PreX2.vectorized)
        => /\ ~Out.vectorized
           /\ SameFn(Out.call.x1_call, PreX1.call)
           /\ SameFn(Out.call.x2_call, PreX2.call)
           /\ ~Defined(Out.apply)

C5_Witness ==
    /\ Done("lincomb")
    /\ PreOut.vectorized
    /\ ~PreX1.vectorized
    /\ ~PreX2.vectorized

\* C6 (as claimed): after lincomb, out's apply is defined if and only if the
\* apply of x1 and the apply of x2 were both defined before the call.
C6_LincombApplyDefined ==
    Done("lincomb") =>
        (Defined(Out.apply) <=> (Defined(PreX1.apply) /\ Defined(PreX2.apply)))

\* C7 (as claimed): after multiply or divide, the result's apply is defined
\* exactly when it is defined after lincomb on the same operands.
C7_SameApplyRule ==
    (last.op \in {"multiply", "divide", "divide_new"} /\ last.err = "ok") =>
        (Defined(Out.apply) <=>
            Defined(lincomb_kernel(last.pre, 1, last.x1, 1, last.x2, last.out,
                                   0)[last.out].apply))

\* C8: for p >= 1 the element scalar_power(x, p) produces evaluates, out of
\* place and (when x has an apply) in place, to the p-fold product of x's
\* value, and the out-of-place path leaves the array x's call returned as it
\* was.
C8_PowerIsProduct ==
    (Done("scalar_power") /\ last.p >= 1) =>
        \A arr \in TestArrays :
            /\ LET vx == Values(PreX1, arr)
                   vo == Values(Out, arr)
               IN  vx.err = "ok" =>
                       /\ vo.err = "ok"
                       /\ vo.val = ArrPow(vx.val, last.p)
            /\ PreX1.vectorized =>
                   LET ex == CallV(PreX1.call, << arr >>, 1)
                       eo == CallV(Out.call, << arr >>, 1)
                   IN  ex.err = "ok" =>
                           /\ eo.err = "ok"
                           /\ eo.r # ex.r
                           /\ eo.h[ex.r] = ex.h[ex.r]
            /\ Defined(PreX1.apply) =>
                   LET wx == ValuesInPlace(PreX1, arr)
                       wo == ValuesInPlace(Out, arr)
                   IN  /\ Defined(Out.apply)
                       /\ wx.err = "ok" =>
                              /\ wo.err = "ok"
                              /\ wo.val = ArrPow(wx.val, last.p)

\* C8 witness: an odd exponent that is no power of two, on a vectorized
\* element with an apply function
C8_Witness ==
    /\ Done("scalar_power")
    /\ last.p = 3
    /\ PreX1.vectorized
    /\ Defined(Out.apply)
    /\ Values(Out, << Num(1), Num(-1) >>).val = << Num(8), Num(0) >>
    /\ ValuesInPlace(Out, << Num(1), Num(-1) >>).val = << Num(8), Num(0) >>

\* C9: divide with x1, x2 or out outside the space, and assign with other
\* outside the Vector's space, raise a type error and leave every Vector, the
\* target included, as it was.
C9_MembershipErrorNoMutation ==
    /\ (last.op = "divide" /\ (\/ ~Member(Sp1, last.x1, last.pre)
                               \/ ~Member(Sp1, last.x2, last.pre)
                               \/ ~Member(Sp1, last.out, last.pre)))
          => (last.err = "TypeError" /\ vecs = last.pre)
    /\ (last.op = "divide_new" /\ (\/ ~Member(Sp1, last.x1, last.pre)
                                   \/ ~Member(Sp1, last.x2, last.pre)))
          => (last.err = "TypeError" /\ vecs = last.pre)
    /\ (last.op = "assign" /\ ~Member(PreOut.space, last.x1, last.pre))
          => (last.err = "TypeError" /\ vecs = last.pre)

\* C9 witness: divide refused because out belongs to another space
C9_Witness ==
    /\ last.op = "divide"
    /\ last.err = "TypeError"
    /\ Member(Sp1, last.x1, last.pre)
    /\ Member(Sp1, last.x2, last.pre)
    /\ ~Member(Sp1, last.out, last.pre)

\* C10: right after a.assign(b), a == b holds (a has b's call function, apply
\* function and vectorized flag) and b is as it was.
C10_AssignThenEqual ==
    Done("assign") =>
        /\ VecEq(last.out, last.x1, vecs)
        /\ SameFn(Out.call, PreX1.call)
        /\ SameFn(Out.apply, PreX1.apply)
        /\ Out.vectorized = PreX1.vectorized
        /\ vecs[last.x1].call = PreX1.call
        /\ vecs[last.x1].apply = PreX1.apply
        /\ vecs[last.x1].vectorized = PreX1.vectorized
        /\ vecs[last.x1].space = PreX1.space

\* C10 witness: an assign between two Vectors that differed in all three
C10_Witness ==
    /\ Done("assign")
    /\ last.out # last.x1
    /\ ~SameFn(PreOut.call, PreX1.call)
    /\ ~SameFn(PreOut.apply, PreX1.apply)
    /\ PreOut.vectorized # PreX1.vectorized

\* C11: element(v) with v a Vector of the set, no apply override and the flag
\* v has returns v itself, no Vector is created or changed, and element on
\* what it returned returns it again.
C11_ElementReturnsSame ==
    (/\ last.op = "element_of"
     /\ Member(last.fset, last.x1, last.pre)
     /\ last.fapply = None
     /\ last.vectorized = PreX1.vectorized)
        => /\ last.err = "ok"
           /\ last.ret = last.x1
           /\ ~last.new
           /\ vecs = last.pre
           /\ element_of_vector(last.fset, vecs[last.ret], None,
                                last.vectorized).kind = "same"

\* C11 witness: element on a non-vectorized Vector of the set with its flag
C11_Witness ==
    /\ last.op = "element_of"
    /\ Member(last.fset, last.x1, last.pre)
    /\ last.fapply = None
    /\ ~last.vectorized
    /\ ~PreX1.vectorized
    /\ last.ret = last.x1

\* C12 (as claimed): element(v, vectorized=b) with v a Vector of the set, no
\* apply override and b different from v.vectorized returns a new Vector, not
\* v, with v's call and apply functions and the flag b.
C12_ElementNewFlag ==
    (/\ last.op = "element_of"
     /\ Member(last.fset, last.x1, last.pre)
     /\ last.fapply = None
     /\ last.vectorized # PreX1.vectorized)
        => /\ last.err = "ok"
           /\ last.new
           /\ last.ret \in Slots
           /\ last.ret # last.x1
           /\ SameFn(vecs[last.ret].call, PreX1.call)
           /\ SameFn(vecs[last.ret].apply, PreX1.apply)
           /\ vecs[last.ret].vectorized = last.vectorized

\* the arguments a Vector of the space can be evaluated at: an array of
\* points of both domains for a vectorized Vector, a point for the others
ValidInput(v) == IF v.vectorized THEN Array(<< Num(0), Num(1) >>) ELSE Point(1)

\* C13: an element without an apply function is constructed, and such
\* elements are combined by the kernels, without an error; the result of
\* combining such elements has no apply function either; the not-implemented
\* error is raised by in-place evaluation of such an element and by nothing
\* else, and its out-of-place evaluation succeeds (a division by zero aside).
C13_MissingApplyIsLazy ==
    /\ (last.op = "element" /\ last.fapply = None) => last.err = "ok"
    /\ last.op \in {"lincomb", "multiply", "scalar_power"} => last.err = "ok"
    /\ (/\ last.op \in {"divide", "divide_new"}
        /\ Member(Sp1, last.x1, last.pre)
        /\ Member(Sp1, last.x2, last.pre)
        /\ (last.op = "divide" => Member(Sp1, last.out, last.pre)))
           => last.err = "ok"
    /\ (/\ last.op \in KernelOps
        /\ last.err = "ok"
        /\ ~Defined(PreX1.apply)
        /\ ~Defined(PreX2.apply)) => ~Defined(Out.apply)
    /\ (Done("scalar_power") /\ ~Defined(PreX1.apply)) => ~Defined(Out.apply)
    /\ last.err = "NotImplementedError" =>
           (last.op = "call" /\ last.arg.out.k # "None")
    /\ \A i \in Slots :
           ~Defined(vecs[i].apply) =>
               LET x == ValidInput(vecs[i])
                   inplace == VectorCall(vecs[i], x, OutBuffer(x), TRUE)
                   outofplace == VectorCall(vecs[i], x, NoOut, TRUE)
               IN  /\ vecs[i].vectorized => inplace.err = "NotImplementedError"
                   /\ inplace.err # "ok"
                   /\ ~inplace.fcall
                   /\ outofplace.err \in {"ok", "ZeroDivisionError"}
                   /\ outofplace.fcall

\* C13 witness: lincomb of two elements without an apply function, whose
\* result is evaluated out of place but not in place
C13_Witness ==
    /\ Done("lincomb")
    /\ ~Defined(PreX1.apply)
    /\ ~Defined(PreX2.apply)
    /\ PreX1.vectorized # PreX2.vectorized
    /\ ~Defined(Out.apply)
    /\ VectorCall(Out, ValidInput(Out), OutBuffer(ValidInput(Out)), TRUE).err
           = "NotImplementedError"
    /\ VectorCall(Out, ValidInput(Out), NoOut, TRUE).err = "ok"

\* C14: evaluating a non-vectorized Vector raises a type error if x is no
\* point of the domain, else a value error if out is given, else returns
\* what the call function returns at x; the apply function is not invoked
\* and no Vector changes.
C14_NonVectorizedCall ==
    (last.op = "call" /\ ~PreX1.vectorized) =>
        LET x == last.arg.x
            indom == in_domain(PreX1.space.domain, x)
        IN  /\ ~indom => (last.res.err = "TypeError" /\ ~last.res.fcall)
            /\ (indom /\ last.arg.out.k # "None")
                  => (last.res.err = "ValueError" /\ ~last.res.fcall)
            /\ (indom /\ last.arg.out.k = "None")
                  => LET e == CallS(PreX1.call, x.v[1])
                     IN  /\ last.res.fcall
                         /\ last.res.err = e.err
                         /\ e.err = "ok" => last.res.val = << e.v >>
            /\ ~last.res.fapply
            /\ last.err = last.res.err
            /\ vecs = last.pre

\* C14 witness: lambda x: x + 1, non-vectorized, evaluated at the point 1
C14_Witness ==
    /\ last.op = "call"
    /\ ~PreX1.vectorized
    /\ last.arg.x = Point(1)
    /\ last.arg.out.k = "None"
    /\ last.res.err = "ok"
    /\ last.res.val = << Num(2) >>

C16_IdentitiesInPlace ==
    (last.op \in {"zero", "one"} /\ last.vectorized) =>
        \A arr \in {<< Num(0), Num(1) >>, << Num(1) >>} :
            LET c == IF last.op = "zero" THEN Num(0) ELSE Num(1)
                x == Array(arr)
                inplace == VectorCall(Out, x, OutBuffer(x), TRUE)
                outofplace == VectorCall(Out, x, NoOut, TRUE)
            IN  /\ outofplace.err = "ok"
                /\ outofplace.val = ArrFill(arr, c)
                /\ inplace.err = "ok"
                /\ inplace.val = ArrFill(arr, c)

\* C17: copy() returns a new Vector, not the original, in the original's
\* space and equal to it (the same call function, apply function and flag);
\* the original and every other Vector are as they were.
C17_CopyEqualsOriginal ==
    last.op = "copy" =>
        /\ last.err = "ok"
        /\ last.new
        /\ last.ret \in Slots
        /\ last.ret # last.x1
        /\ vecs[last.ret].space = PreX1.space
        /\ VecEq(last.ret, last.x1, vecs)
        /\ SameFn(vecs[last.ret].call, PreX1.call)
        /\ SameFn(vecs[last.ret].apply, PreX1.apply)
        /\ vecs[last.ret].vectorized = PreX1.vectorized
        /\ \A i \in Slots \ {last.ret} : vecs[i] = last.pre[i]

\* C17 witness: the copy of a non-vectorized Vector
C17_Witness ==
    /\ Done("copy")
    /\ ~PreX1.vectorized
    /\ ~vecs[last.ret].vectorized
    /\ last.ret # last.x1

\* the methods entered during the last call on the test object, in order
Entered ==
    SelectSeq(ot.log, LAMBDA e : e \in {"norm", "linear", "adjoint", "derivative"})
\* what the last call on the test object logged, as a set
Logged == { ot.log[i] : i \in DOMAIN ot.log }

\* C18: run_tests runs norm first; for a linear operator it then runs linear
\* and after it adjoint, and never derivative; for any other operator it
\* runs derivative and nothing else.
C18_RunTestsOrder ==
    ot.method = "run_tests" =>
        /\ ot.operator.linear => Entered = << "norm", "linear", "adjoint" >>
        /\ ~ot.operator.linear => Entered = << "norm", "derivative" >>

\* C18 witness: run_tests on a linear operator whose three checks all counted
C18_Witness ==
    /\ ot.method = "run_tests"
    /\ ot.operator.linear
    /\ ot.err = "ok"
    /\ ot.failed.scaling >= 0
    /\ ot.failed.adjoint_definition >= 0
    /\ ot.failed.adjoint_of_adjoint >= 0
    /\ ot.failed.derivative = -1

\* C19: linear() and derivative() called while the norm is unknown compare
\* nothing and return after a diagnostic, the norm still unknown; during
\* run_tests the norm is estimated first and no check finds it unknown.
C19_NoCheckWithoutNorm ==
    /\ (ot.method \in {"linear", "derivative"} /\ ~ot.pre_norm.known) =>
           /\ ot.err = "ok"
           /\ "compared" \notin Logged
           /\ ot.failed = NoCounts
           /\ Len(ot.log) = 2
           /\ ot.log[2] \in {"Operator is not linear",
                              "Operator has no derivative",
                              "Cannot do tests before norm is calculated"}
           /\ ~ot.operator_norm.known
    /\ ot.method = "run_tests" =>
           /\ ot.log[1] = "norm"
           /\ ot.operator_norm.known
           /\ "Cannot do tests before norm is calculated" \notin Logged

\* C19 witness: linear() on a linear operator whose norm is unknown
C19_Witness ==
    /\ ot.method = "linear"
    /\ ot.operator.linear
    /\ ~ot.pre_norm.known
    /\ ot.log = << "linear", "Cannot do tests before norm is calculated" >>

\* C20: adjoint() on an operator that has an adjoint compares A.domain with
\* A.adjoint.range and A.range with A.adjoint.domain; if either pair differs
\* it returns after a diagnostic and runs neither _adjoint_definition nor
\* _adjoint_of_adjoint; if both agree it goes on to _adjoint_definition.
C20_AdjointAbortsOnMismatch ==
    (/\ ot.method = "adjoint"
     /\ ot.operator.adjoint.is # "NotImplementedError") =>
        LET mismatch == \/ ot.operator.domain # ot.operator.adjoint.range
                        \/ ot.operator.range # ot.operator.adjoint.domain
        IN  /\ mismatch =>
                   /\ ot.err = "ok"
                   /\ "_adjoint_definition" \notin Logged
                   /\ "_adjoint_of_adjoint" \notin Logged
                   /\ "ERROR: A.domain != A.adjoint.range" \in Logged
                   /\ ot.log[Len(ot.log)]
                          = "Domain and range of adjoint not OK exiting."
                   /\ ot.failed = NoCounts
            /\ ~mismatch => "_adjoint_definition" \in Logged

\* C20 witness: the ranges agree, the domain of the adjoint is another space
C20_Witness ==
    /\ ot.method = "adjoint"
    /\ ot.operator.adjoint.is = "Operator"
    /\ ot.operator.domain = ot.operator.adjoint.range
    /\ ot.operator.range # ot.operator.adjoint.domain
    /\ ot.pre_norm.known
    /\ ot.log[Len(ot.log)] = "Domain and range of adjoint not OK exiting."

\* C21: after the scaling part of linear() the number of failed cases is the
\* number of pairs (x, s) of an example vector and an example scalar, the
\* negative ones included, with ||A|| |s| ||x|| not zero and
\* ||A(s x) - s A(x)|| > 0.00001 ||A|| |s| ||x||.
C21_ScalingCountsFailures ==
    ot.failed.scaling >= 0 =>
        ot.failed.scaling =
            Cardinality(
                { p \in (DOMAIN vector_examples) \X (DOMAIN scalar_examples) :
                    LET x == vector_examples[p[1]]
                        s == scalar_examples[p[2]]
                        deviation ==
                            RAbs(RSub(OpCall(ot.operator, RMul(s, x)),
                                      RMul(s, OpCall(ot.operator, x))))
                        bound == RMul(ot.operator_norm.v,
                                      RMul(RAbs(s), RAbs(x)))
                    IN  /\ ~IsZero(bound)
                        /\ RGt(deviation, RMul(Tolerance, bound)) })

\* C22: when _adjoint_of_adjoint is reached and A.adjoint has no adjoint,
\* signalled by AttributeError or, as a missing adjoint of A is, by
\* NotImplementedError, the check is skipped after a diagnostic and
\* adjoint() returns normally; when (A^*)^* is A itself nothing is compared.
C22_AdjointOfAdjointSkipped ==
    "_adjoint_of_adjoint" \in Logged =>
        LET aa == ot.operator.adjoint.adjoint
        IN  /\ aa.is \in {"AttributeError", "NotImplementedError"} =>
                   /\ ot.err = "ok"
                   /\ ot.log[Len(ot.log)] = "A^* has no adjoint"
                   /\ ot.failed.adjoint_of_adjoint = -1
            /\ aa.is = "self" =>
                   /\ ot.err = "ok"
                   /\ ot.log[Len(ot.log)] = "(A^*)^* == A"
                   /\ ot.failed.adjoint_of_adjoint = -1

\* C28: adjoint() called while the operator norm is unknown returns
\* normally and has compared nothing.
C28_AdjointWithoutNorm ==
    (ot.method = "adjoint" /\ ~ot.pre_norm.known) =>
        /\ ot.err = "ok"
        /\ ot.failed = NoCounts
        /\ "scale" \notin Logged
        /\ "compared" \notin Logged

\* C29: the first call on a test object built with an operator norm, be it
\* norm() or run_tests(), leaves that norm in place.
C29_GivenNormKept ==
    (/\ ot.calls = 1
     /\ ot.method \in {"norm", "run_tests"}
     /\ ot.pre_norm.known) =>
        ot.operator_norm = ot.pre_norm

\* C23: after f += g, f -= g, f *= g, f /= g or f **= p the name f is bound
\* to the Vector it was bound to before, and after f **= p with p >= 1 that
\* Vector evaluates to the p-th power of its former value.
C23_InPlaceReturnsSelf ==
    last.op \in InPlaceOperators \cup {"ipow"} =>
        /\ last.ret = last.out
        /\ (last.op = "ipow" /\ last.p >= 1) =>
               \A arr \in TestArrays :
                   LET vx == Values(PreOut, arr)
                       vo == Values(Out, arr)
                   IN  vx.err = "ok" =>
                           /\ vo.err = "ok"
                           /\ vo.val = ArrPow(vx.val, last.p)

\* C24: -f raises nothing and returns a new element of f's space that
\* evaluates to -f(x) at every valid input; f is as it was.
C24_NegationSucceeds ==
    last.op = "neg" =>
        /\ last.err = "ok"
        /\ last.new
        /\ last.ret \in Slots
        /\ Member(PreX1.space, last.ret, vecs)
        /\ vecs[last.x1] = PreX1
        /\ \A arr \in TestArrays :
               LET vf == Values(PreX1, arr)
                   vn == Values(vecs[last.ret], arr)
               IN  vf.err = "ok" =>
                       /\ vn.err = "ok"
                       /\ vn.val = ArrScale(vf.val, Num(-1))

\* C26: whenever fset.element(...) returns, be the argument a callable or a
\* Vector, it returns a Vector, and that Vector is in fset.
C26_ElementIsMember ==
    (last.op \in {"element", "element_of"} /\ last.err = "ok") =>
        /\ last.ret \in Slots
        /\ Member(last.fset, last.ret, vecs)

\* in-place and out-of-place evaluation of v agree on the test arrays; a
\* Vector without apply function has no in-place evaluation to disagree
Agree(v) ==
    Defined(v.apply) =>
        \A arr \in TestArrays : ValuesInPlace(v, arr) = Values(v, arr)

\* C27: if the operands of lincomb, multiply, divide or scalar_power agree
\* in this sense, so does the result.
C27_KernelsPreserveAgreement ==
    (/\ last.op \in KernelOps \cup {"scalar_power"}
     /\ last.err = "ok"
     /\ Agree(PreX1)
     /\ last.op # "scalar_power" => Agree(PreX2)) =>
        Agree(Out)

\* C25: an operation that rewrites a Vector f (assign, or a kernel with
\* out = f) leaves every kernel result h other than f as it was: h evaluates
\* at every input, out of place and in place, as it did before.
C25_ResultKeepsOperands ==
    \A h \in Slots :
        (/\ h # last.out
         /\ vecs[h].call.k \in {"lincomb_call", "product_call",
                                "quotient_call", "power_call"}) =>
            /\ vecs[h] = last.pre[h]
            /\ \A arr \in TestArrays :
                   /\ Values(vecs[h], arr) = Values(last.pre[h], arr)
                   /\ ValuesInPlace(vecs[h], arr)
                          = ValuesInPlace(last.pre[h], arr)

\* C25 witness: h = 2*f + g was made from f, then f was rewritten by a
\* kernel with out = f and evaluates otherwise; h still holds the function
\* f had and evaluates on it
C25_Witness ==
    \E h \in Slots :
        /\ h # last.out
        /\ vecs[h].call.k = "lincomb_call"
        /\ vecs[h].call.a = 2
        /\ last.op \in {"lincomb", "multiply", "scalar_power"}
        /\ last.err = "ok"
        /\ SameFn(vecs[h].call.x1_call, PreOut.call)
        /\ ~SameFn(Out.call, PreOut.call)
        /\ Values(Out, << Num(0), Num(1) >>)
               # Values(PreOut, << Num(0), Num(1) >>)
        /\ Values(vecs[h], << Num(0), Num(1) >>).err = "ok"

\* C30: every ASTRA delete call of an AstraProjectorImpl, made by
\* call_forward or at its destruction, with or without cache, is given an
\* id that is not None and is allocated at that moment.
C30_DeletesOnlyAllocated ==
    \A i \in DOMAIN impl.issued :
        /\ impl.issued[i].id # NoId
        /\ impl.issued[i].allocated
====
